---- MODULE Spec2Model ----
(***************************************************************************)
(* SupaAgent: the CustomIDE component (chat turns, attachments,            *)
(* deployment status), the process-request and deploy routes, and the      *)
(* workspace helpers over localStorage.                                    *)
(*                                                                         *)
(* Texts, message contents and storage keys are strings; trim(),           *)
(* startsWith() and the template literals are computed on them (the emoji  *)
(* that open some literals of the source are left out).                    *)
(* Date.now() is the variable clock, a counter that never decreases and    *)
(* may stay equal between two reads.                                       *)
(***************************************************************************)
EXTENDS Integers, Sequences, FiniteSets, TLC

VARIABLES
    clock,             \* Date.now()
    messages,          \* useState<Message[]>            route.ts:164
    input,             \* useState("")                   route.ts:173
    isLoading,         \* useState(false)                route.ts:174
    uploadedFiles,     \* useState<UploadedFile[]>([])   route.ts:181
    chatCalls,         \* handleSubmit invocations awaiting fetch/response.json()
    uploadCalls,       \* handleFileUpload invocations awaiting file.text()
    uploads,           \* number of handleFileUpload invocations so far
    deploymentStatus,  \* useState("idle")               route.ts:180
    deployCalls,       \* handleDeploy invocations awaiting fetch/response.json()
    deployRequests,    \* number of fetch("/api/deploy") calls issued so far
    revertTimers,      \* pending setTimeout(() => setDeploymentStatus("idle"), 3000)
    codeContent,       \* useState("// Welcome ...")     route.ts:177
    fileName,          \* useState("app.tsx")           route.ts:178
    activeTab,         \* useState("chat")              route.ts:176
    uncaught,          \* TRUE once an exception has left a handler or helper
    localStorage,      \* window.localStorage: key -> value
    returnedIds,       \* workspace ids returned by the creating calls, in call order
    saved,             \* workspace id -> what the last completed save call stored
    savedFiles,        \* workspace id -> file name -> source of its last completed save
    helperCalls,       \* number of workspace helper calls made so far
    request,           \* the body the process-request route is called with
    reply              \* the NextResponse the route returned for it

chatVars == <<messages, input, isLoading, uploadedFiles, chatCalls, uploadCalls,
             uploads>>
editorVars == <<codeContent, fileName, activeTab>>
deployVars == <<deploymentStatus, deployCalls, deployRequests, revertTimers>>
ideVars == <<chatVars, editorVars, deployVars>>
wsVars == <<localStorage, returnedIds, saved, savedFiles, helperCalls>>
routeVars == <<request, reply>>
vars == <<clock, ideVars, uncaught, wsVars, routeVars>>

(***************************************************************************)
(* Bounds                                                                  *)
(***************************************************************************)
ClockStart == 3      \* first value of Date.now() in a run (far above the id "1")
MaxTicks == 1        \* clock advances at most this far above ClockStart
MaxMessages == 4     \* submits are explored while the history is shorter than this
MaxDeploys == 3      \* handleDeploy invocations explored
MaxUploads == 1      \* handleFileUpload invocations explored
MaxCalls == 3        \* workspace helper calls explored

InitialMessageId == 1

(***************************************************************************)
(* Strings                                                                 *)
(***************************************************************************)
WhiteSpace == {" ", "\t", "\n"}

RECURSIVE TrimStart(_)
TrimStart(s) ==
    IF s # "" /\ Head(s) \in WhiteSpace THEN TrimStart(Tail(s)) ELSE s

RECURSIVE TrimEnd(_)
TrimEnd(s) ==
    IF s # "" /\ SubSeq(s, Len(s), Len(s)) \in WhiteSpace
    THEN TrimEnd(SubSeq(s, 1, Len(s) - 1))
    ELSE s

\* String.prototype.trim()
Trim(s) == TrimEnd(TrimStart(s))

\* String.prototype.startsWith / endsWith
StartsWith(s, prefix) ==
    Len(prefix) <= Len(s) /\ SubSeq(s, 1, Len(prefix)) = prefix
EndsWith(s, suffix) ==
    Len(suffix) <= Len(s) /\ SubSeq(s, Len(s) - Len(suffix) + 1, Len(s)) = suffix

\* String.prototype.includes
Includes(s, sub) ==
    \E i \in 1..(Len(s) - Len(sub) + 1) : SubSeq(s, i, i + Len(sub) - 1) = sub

\* String.prototype.toLowerCase on ASCII text
UpperCase == "ABCDEFGHIJKLMNOPQRSTUVWXYZ"
LowerCase == "abcdefghijklmnopqrstuvwxyz"
LowerChar(c) ==
    IF Includes(UpperCase, c)
    THEN LET i == CHOOSE k \in 1..Len(UpperCase) : SubSeq(UpperCase, k, k) = c
         IN SubSeq(LowerCase, i, i)
    ELSE c

RECURSIVE ToLowerCase(_)
ToLowerCase(s) ==
    IF s = "" THEN "" ELSE LowerChar(Head(s)) \o ToLowerCase(Tail(s))

\* Array.prototype.join
RECURSIVE Join(_, _)
Join(strings, separator) ==
    IF strings = <<>> THEN ""
    ELSE IF Len(strings) = 1 THEN strings[1]
    ELSE strings[1] \o separator \o Join(Tail(strings), separator)

\* the longest prefix of s matching [^\s]* and the one matching \w*
RECURSIVE NonSpacePrefix(_)
NonSpacePrefix(s) ==
    IF s = "" \/ Head(s) \in WhiteSpace THEN ""
    ELSE Head(s) \o NonSpacePrefix(Tail(s))

IsWordChar(c) == Includes(UpperCase \o LowerCase \o "0123456789_", c)

RECURSIVE WordPrefix(_)
WordPrefix(s) ==
    IF s = "" \/ ~IsWordChar(Head(s)) THEN ""
    ELSE Head(s) \o WordPrefix(Tail(s))

\* texts the user may have typed into the textarea
InputTexts == { "", " ", " hi\n" }

UploadedFilesText == "Uploaded files for analysis"
ApologyText ==
    "I apologize, but I encountered an error processing your request. Please try again."
ErrorText == "I encountered an error processing your request. Please try again."
WelcomeText == "Welcome to your Custom IDE!"

(***************************************************************************)
(* JavaScript values                                                       *)
(***************************************************************************)
\* a || b on strings and absent fields: an absent field and "" are falsy
OrElse(data, field, default) ==
    IF field \in DOMAIN data /\ data[field] # "" THEN data[field] ELSE default

\* ${data.field} inside a template literal: an absent field prints "undefined"
Interpolate(data, field) ==
    IF field \in DOMAIN data THEN data[field] ELSE "undefined"

\* the sequence s without its i-th element
RemoveAt(s, i) == SubSeq(s, 1, i - 1) \o SubSeq(s, i + 1, Len(s))

NewMessage(id, type, content, files) ==
    [id |-> id, type |-> type, content |-> content, files |-> files]

(***************************************************************************)
(* The routes, as the transport's answers                                  *)
(***************************************************************************)
\* what awaiting fetch(...) and response.json() can give the handler:
\* fetch rejects, the body does not parse, or the body parses to data
Throws == [kind |-> "throws"]
Unparsable == [kind |-> "unparsable"]
Json(data) == [kind |-> "json", data |-> data]

\* bodies /api/process-request answers with: the narrative with its metadata,
\* the same with generated code in the metadata, and the body of its catch
ChatBodies ==
    { [response |-> "I can help you with that!",
       metadata |-> [modelUsed |-> "Venice AI"], model |-> "venice"],
      [response |-> "Building an app like Notion...",
       metadata |-> [modelUsed |-> "Venice AI", code |-> "export default App"],
       model |-> "venice"],
      [error |-> "Failed to process request"] }

ChatAnswers == {Throws, Unparsable} \cup {Json(b) : b \in ChatBodies}

deployToVercel(now) ==
    [url |-> "https://your-app-" \o ToString(now) \o ".vercel.app",
     repoUrl |-> "https://github.com/user/your-app-" \o ToString(now)]

pushToGitHub(now) ==
    [url |-> "https://github.com/user/your-app-" \o ToString(now)]

\* the deploy route with a vercel branch that passes on the url alone
DeployPOST_UrlOnly(platform, requestOk, now) ==
    IF ~requestOk
    THEN [success |-> FALSE, error |-> "Deployment failed"]
    ELSE IF platform = "vercel"
    THEN [success |-> TRUE, url |-> deployToVercel(now).url]
    ELSE IF platform = "github"
    THEN [success |-> TRUE, repoUrl |-> pushToGitHub(now).url]
    ELSE [success |-> FALSE, error |-> "Invalid platform"]

\* POST of the deploy route; requestOk = FALSE is request.json() throwing
DeployPOST(platform, requestOk, now) ==
    IF ~requestOk
    THEN [success |-> FALSE, error |-> "Deployment failed"]
    ELSE IF platform = "vercel"
    THEN [success |-> TRUE, url |-> deployToVercel(now).url,
          repoUrl |-> deployToVercel(now).repoUrl]
    ELSE IF platform = "github"
    THEN [success |-> TRUE, repoUrl |-> pushToGitHub(now).url]
    ELSE [success |-> FALSE, error |-> "Invalid platform"]

\* handleDeploy's argument: the two buttons pass "vercel" and "github";
\* "netlify" is a string the route does not recognise
Platforms == {"vercel", "github", "netlify"}

DeployAnswers(platform, now) ==
    {Throws, Unparsable} \cup {Json(DeployPOST(platform, ok, now)) : ok \in BOOLEAN}

(***************************************************************************)
(* The process-request route                                               *)
(***************************************************************************)
\* the model registry of @/config/api-keys: an entry per model identifier,
\* "venice" being the default one
MODEL_CONFIGS ==
    [venice |-> [name |-> "Venice AI", provider |-> "Venice"],
     openai |-> [name |-> "OpenAI", provider |-> "OpenAI"]]

\* { ...a, ...b }
Spread(a, b) ==
    [k \in DOMAIN a \cup DOMAIN b |-> IF k \in DOMAIN b THEN b[k] ELSE a[k]]

\* files && files.length > 0
HasFiles(body) == "files" \in DOMAIN body /\ Len(body.files) > 0

\* files.map((f) => f.name)
FileNames(files) == [i \in 1..Len(files) |-> files[i].name]

\* the type of the file branch with the zip test ahead of the image test
FileType_ZipFirst(files) ==
    IF \E i \in 1..Len(files) : EndsWith(files[i].name, ".zip")
    THEN "zip-extraction"
    ELSE IF \E i \in 1..Len(files) : StartsWith(files[i].type, "image/")
    THEN "image-analysis"
    ELSE IF \E i \in 1..Len(files) :
                Includes(files[i].name, "figma") \/ Includes(files[i].type, "figma")
    THEN "figma-conversion"
    ELSE "file-analysis"

\* the chain of files.some(...) tests of the file branch
FileType(files) ==
    IF \E i \in 1..Len(files) : StartsWith(files[i].type, "image/")
    THEN "image-analysis"
    ELSE IF \E i \in 1..Len(files) : EndsWith(files[i].name, ".zip")
    THEN "zip-extraction"
    ELSE IF \E i \in 1..Len(files) :
                Includes(files[i].name, "figma") \/ Includes(files[i].type, "figma")
    THEN "figma-conversion"
    ELSE "file-analysis"

\* the opening of each narrative, up to and including what it interpolates
\* (the fixed remainder of every template is left out)
FileResponse(files) ==
    LET fileNames == Join(FileNames(files), ", ")
    IN CASE FileType(files) = "image-analysis" ->
              "Analyzing uploaded images...\n\nI can see you've uploaded: "
                  \o fileNames
         [] FileType(files) = "zip-extraction" ->
              "Processing uploaded ZIP file...\n\nI'm extracting and analyzing: "
                  \o fileNames
         [] FileType(files) = "figma-conversion" -> "Processing Figma design..."
         [] OTHER -> "Processing uploaded files...\n\nI've received: " \o fileNames

\* the match of /(https?:\/\/[^\s]+)/ that starts at the head of s, "" if none
UrlAtHead(s) ==
    LET scheme == IF StartsWith(s, "https://") THEN "https://"
                  ELSE IF StartsWith(s, "http://") THEN "http://"
                  ELSE ""
        rest == NonSpacePrefix(SubSeq(s, Len(scheme) + 1, Len(s)))
    IN IF scheme # "" /\ rest # "" THEN scheme \o rest ELSE ""

\* an extractUrl that answers a message without a match with a placeholder
RECURSIVE extractUrl_Placeholder(_)
extractUrl_Placeholder(message) ==
    IF message = "" THEN "about:blank"
    ELSE IF UrlAtHead(message) # "" THEN UrlAtHead(message)
    ELSE extractUrl_Placeholder(Tail(message))

\* extractUrl: match ? match[0] : ""
RECURSIVE extractUrl(_)
extractUrl(message) ==
    IF message = "" THEN ""
    ELSE IF UrlAtHead(message) # "" THEN UrlAtHead(message)
    ELSE extractUrl(Tail(message))

DefaultAppName == "the requested application"

\* extractAppName: the group of the first match of /app like (\w+)/i
RECURSIVE extractAppName(_)
extractAppName(message) ==
    IF message = "" THEN DefaultAppName
    ELSE IF /\ StartsWith(ToLowerCase(message), "app like ")
            /\ WordPrefix(SubSeq(message, Len("app like ") + 1, Len(message))) # ""
    THEN WordPrefix(SubSeq(message, Len("app like ") + 1, Len(message)))
    ELSE extractAppName(Tail(message))

\* the conditions of the else-if chain on the message
CloneRule(message) ==
    /\ Includes(ToLowerCase(message), "clone")
    /\ Includes(message, "http") \/ Includes(message, "github")
BuildRule(message) ==
    /\ Includes(ToLowerCase(message), "build")
    /\ Includes(ToLowerCase(message), "app like")
DebugRule(message) ==
    Includes(ToLowerCase(message), "debug") \/ Includes(ToLowerCase(message), "fix")

\* the metadata of the text branches with the debug branch leaving openIDE out
TextMetadata_DebugStaysInChat(message) ==
    IF CloneRule(message)
    THEN [openIDE |-> TRUE,
          type |-> IF Includes(message, "github.com") THEN "github" ELSE "website",
          url |-> extractUrl(message)]
    ELSE IF BuildRule(message)
    THEN [openIDE |-> TRUE, type |-> "build", appName |-> extractAppName(message)]
    ELSE IF DebugRule(message)
    THEN [type |-> "debug"]
    ELSE << >>

\* the metadata of the text branches; the last branch leaves it {}
TextMetadata(message) ==
    IF CloneRule(message)
    THEN [openIDE |-> TRUE,
          type |-> IF Includes(message, "github.com") THEN "github" ELSE "website",
          url |-> extractUrl(message)]
    ELSE IF BuildRule(message)
    THEN [openIDE |-> TRUE, type |-> "build", appName |-> extractAppName(message)]
    ELSE IF DebugRule(message)
    THEN [openIDE |-> TRUE, type |-> "debug"]
    ELSE << >>

TextResponse(message) ==
    IF CloneRule(message)
    THEN IF Includes(message, "github.com") THEN "Cloning GitHub repository..."
                                            ELSE "Cloning website..."
    ELSE IF BuildRule(message)
    THEN "Building an app like " \o extractAppName(message) \o "..."
    ELSE IF DebugRule(message)
    THEN "Analyzing code for debugging..."
    ELSE "I can help you with that!"

\* the response of the catch block
FailedToProcess == [status |-> 500, body |-> [error |-> "Failed to process request"]]

\* POST: body is what request.json() gives, a record of the fields present;
\* a body that does not parse makes request.json() throw, and an absent
\* message makes message.toLowerCase() throw once the file test has failed
POST(body) ==
    IF "unparsable" \in DOMAIN body
    THEN FailedToProcess
    ELSE IF ~HasFiles(body) /\ "message" \notin DOMAIN body
    THEN FailedToProcess
    ELSE LET response == IF HasFiles(body) THEN FileResponse(body.files)
                                           ELSE TextResponse(body.message)
             metadata == IF HasFiles(body)
                         THEN [openIDE |-> TRUE, type |-> FileType(body.files),
                               files |-> body.files]
                         ELSE TextMetadata(body.message)
             model == OrElse(body, "model", "")
             selectedModel == IF model \in DOMAIN MODEL_CONFIGS
                              THEN MODEL_CONFIGS[model]
                              ELSE MODEL_CONFIGS.venice
         IN [status |-> 200,
             body |-> [response |-> response,
                       metadata |-> Spread(metadata,
                                           [modelUsed |-> selectedModel.name,
                                            provider |-> selectedModel.provider]),
                       model |-> OrElse(body, "model", "venice")]]

\* request bodies: messages, attachment lists and model identifiers a client
\* may send, each field possibly absent, and a body that is not JSON
ChatMessages ==
    { "", "hello there", "clone https://github.com/acme/widgets",
      "Clone github.com/acme", "clone github.com/acme/widgets",
      "please clone the github repo",
      "clone http://example.com/a now, then https://b.io",
      "clone http:// then\thttps://github.com/x\nthanks",
      "CLONE HTTP://EXAMPLE.COM", "clone https://GitHub.com/acme",
      "CLONE HTTP://EXAMPLE.COM and fix it",
      "build an app like Notion", "Build an APP LIKE Trello_2 please",
      "build an app like ", "build an app like Notion and fix it",
      "clone https://github.com/a/b, build an app like http://x.io and debug",
      "please Debug this", "FIX it", "http://example.com" }

PngFile == [name |-> "logo.png", type |-> "image/png", size |-> 2048]
ArchiveFile == [name |-> "site.zip", type |-> "application/zip", size |-> 4096]
FigFile == [name |-> "home.fig", type |-> "application/figma", size |-> 512]
FigmaNamedFile == [name |-> "figma-export.json", type |-> "", size |-> 64]
PlainFile == [name |-> "notes.txt", type |-> "text/plain", size |-> 12]
UnnamedZip == [name |-> "bundle", type |-> "application/zip", size |-> 9]

AttachmentLists ==
    { <<>>, <<PngFile>>, <<ArchiveFile>>, <<FigFile>>, <<FigmaNamedFile>>,
      <<PlainFile>>, <<UnnamedZip>>,
      <<PngFile, ArchiveFile>>, <<ArchiveFile, PngFile>>,
      <<ArchiveFile, FigFile>>, <<FigFile, ArchiveFile>>,
      <<PlainFile, FigmaNamedFile>>, <<FigmaNamedFile, PlainFile>>,
      <<PlainFile, FigFile, ArchiveFile, PngFile>>,
      <<PngFile, ArchiveFile, FigFile, PlainFile>> }

ModelIds == {"openai", "llama"}

RequestBodies ==
    { [message |-> m, files |-> f, history |-> <<>>, model |-> "venice"] :
          m \in ChatMessages, f \in AttachmentLists }
    \cup { [message |-> m, history |-> <<>>, model |-> id] :
               m \in ChatMessages, id \in ModelIds }
    \cup { [message |-> m] : m \in ChatMessages }
    \cup { [files |-> f] : f \in AttachmentLists }
    \cup { [history |-> <<>>, model |-> id] : id \in ModelIds }
    \cup { [unparsable |-> TRUE] }

\* no request received yet, and no response returned yet
NoRequest == << >>
NoReply == << >>

\* a request arrives at the route
Receive(body) ==
    /\ request = NoRequest \/ reply # NoReply
    /\ request' = body
    /\ reply' = NoReply
    /\ UNCHANGED <<clock, ideVars, uncaught, wsVars>>

\* the route answers it
ProcessRequest ==
    /\ request # NoRequest
    /\ reply = NoReply
    /\ reply' = POST(request)
    /\ UNCHANGED <<clock, ideVars, uncaught, wsVars, request>>

(***************************************************************************)
(* CustomIDE: chat turns                                                   *)
(***************************************************************************)
\* onChange of the textarea
SetInput(text) ==
    /\ input' = text
    /\ UNCHANGED <<clock, messages, isLoading, uploadedFiles, chatCalls,
                   uploadCalls, uploads, editorVars, deployVars, uncaught, wsVars, routeVars>>

\* the guard without its isLoading test
SubmitRejected_IgnoresLoading ==
    Trim(input) = "" /\ Len(uploadedFiles) = 0

\* the guard of handleSubmit: nothing to send, or a turn is outstanding
SubmitRejected ==
    (Trim(input) = "" /\ Len(uploadedFiles) = 0) \/ isLoading

\* handleSubmit up to its await; handleKeyDown (Enter without Shift) and the
\* form's onSubmit both come here
HandleSubmit ==
    IF SubmitRejected
    THEN UNCHANGED vars
    ELSE LET userMessage ==
                 NewMessage(clock, "user",
                            IF Trim(input) # "" THEN Trim(input)
                                                ELSE UploadedFilesText,
                            uploadedFiles)
         IN /\ messages' = Append(messages, userMessage)
            /\ input' = ""
            /\ uploadedFiles' = <<>>
            /\ isLoading' = TRUE
            /\ chatCalls' = Append(chatCalls,
                                   [message |-> userMessage.content,
                                    history |-> messages,
                                    files |-> userMessage.files])
            /\ UNCHANGED <<clock, uploadCalls, uploads, editorVars, deployVars,
                           uncaught, wsVars, routeVars>>

\* the assistant message without the fallback text for a body with no response
AssistantMessage_NoFallback(answer, now) ==
    IF answer.kind = "json"
    THEN NewMessage(now + 1, "assistant",
                    IF "response" \in DOMAIN answer.data
                    THEN answer.data.response ELSE "", <<>>)
    ELSE NewMessage(now + 1, "assistant", ErrorText, <<>>)

\* the assistant message handleSubmit builds from the transport's answer
AssistantMessage(answer, now) ==
    IF answer.kind = "json"
    THEN NewMessage(now + 1, "assistant",
                    OrElse(answer.data, "response", ApologyText), <<>>)
    ELSE NewMessage(now + 1, "assistant", ErrorText, <<>>)

\* data.metadata?.code
MetadataCode(answer) ==
    IF /\ answer.kind = "json"
       /\ "metadata" \in DOMAIN answer.data
       /\ "code" \in DOMAIN answer.data.metadata
    THEN answer.data.metadata.code
    ELSE ""

\* handleSubmit after its awaits, for the i-th outstanding call
SubmitResume(i, answer) ==
    /\ i \in 1..Len(chatCalls)
    /\ chatCalls' = RemoveAt(chatCalls, i)
    /\ messages' = Append(messages, AssistantMessage(answer, clock))
    /\ IF MetadataCode(answer) # ""
       THEN /\ codeContent' = MetadataCode(answer)
            /\ fileName' = OrElse(answer.data.metadata, "fileName", "app.tsx")
            /\ activeTab' = "editor"
       ELSE UNCHANGED editorVars
    /\ isLoading' = FALSE
    /\ UNCHANGED <<clock, input, uploadedFiles, uploadCalls, uploads, deployVars,
                   uncaught, wsVars, routeVars>>

(***************************************************************************)
(* CustomIDE: attachments                                                  *)
(***************************************************************************)
\* files the user may pick; text is what file.text() gives when the read works
ImageFile == [name |-> "logo.png", type |-> "image/png", size |-> 2048, text |-> ""]
TextFile == [name |-> "notes.txt", type |-> "text/plain", size |-> 12, text |-> "to do"]
ZipFile == [name |-> "site.zip", type |-> "application/zip", size |-> 4096,
            text |-> "PK"]
UploadBatches == { <<ImageFile>>, <<TextFile>>, <<ImageFile, ZipFile>> }

\* URL.createObjectURL: an opaque reference, named here after the file
createObjectURL(file) == "blob:" \o file.name

Descriptor(file) == [name |-> file.name, type |-> file.type, size |-> file.size]
WithUrl(file) ==
    [name |-> file.name, type |-> file.type, size |-> file.size,
     url |-> createObjectURL(file)]
WithContent(file) ==
    [name |-> file.name, type |-> file.type, size |-> file.size,
     content |-> file.text]

IsImage(file) == StartsWith(file.type, "image/")
IsZip(file) == file.type = "application/zip" \/ EndsWith(file.name, ".zip")

\* the loop of handleFileUpload from index i on, up to its next await:
\* images are pushed at once, any other file waits for file.text()
RECURSIVE UploadLoop(_, _, _)
UploadLoop(files, i, newFiles) ==
    IF i > Len(files)
    THEN [done |-> TRUE, files |-> files, i |-> i, newFiles |-> newFiles]
    ELSE IF IsImage(files[i])
    THEN UploadLoop(files, i + 1, Append(newFiles, WithUrl(files[i])))
    ELSE [done |-> FALSE, files |-> files, i |-> i, newFiles |-> newFiles]

\* handleFileUpload up to its first await (or to its end)
HandleFileUpload(files) ==
    LET run == UploadLoop(files, 1, <<>>)
    IN /\ IF run.done
          THEN /\ uploadedFiles' = uploadedFiles \o run.newFiles
               /\ UNCHANGED uploadCalls
          ELSE /\ uploadCalls' = Append(uploadCalls, run)
               /\ UNCHANGED uploadedFiles
       /\ uploads' = uploads + 1
       /\ UNCHANGED <<clock, messages, input, isLoading, chatCalls, editorVars,
                      deployVars, uncaught, wsVars, routeVars>>

\* handleFileUpload after the await of file.text() for the k-th waiting call;
\* readOk = FALSE is file.text() rejecting
UploadResume(k, readOk) ==
    LET call == uploadCalls[k]
        file == call.files[call.i]
        thrown == IsZip(file) /\ ~readOk
        pushed == IF readOk THEN WithContent(file) ELSE Descriptor(file)
        run == UploadLoop(call.files, call.i + 1, Append(call.newFiles, pushed))
    IN /\ k \in 1..Len(uploadCalls)
       /\ IF thrown
          THEN /\ uploadCalls' = RemoveAt(uploadCalls, k)
               /\ uncaught' = TRUE
               /\ UNCHANGED uploadedFiles
          ELSE IF run.done
          THEN /\ uploadCalls' = RemoveAt(uploadCalls, k)
               /\ uploadedFiles' = uploadedFiles \o run.newFiles
               /\ UNCHANGED uncaught
          ELSE /\ uploadCalls' = [uploadCalls EXCEPT ![k] = run]
               /\ UNCHANGED <<uploadedFiles, uncaught>>
       /\ UNCHANGED <<clock, messages, input, isLoading, chatCalls, uploads,
                      editorVars, deployVars, wsVars, routeVars>>

RemoveFile(index) ==
    /\ index \in 1..Len(uploadedFiles)
    /\ uploadedFiles' = RemoveAt(uploadedFiles, index)
    /\ UNCHANGED <<clock, messages, input, isLoading, chatCalls, uploadCalls,
                   uploads, editorVars, deployVars, uncaught, wsVars, routeVars>>

(***************************************************************************)
(* CustomIDE: deployment                                                   *)
(***************************************************************************)
\* disabled={deploymentStatus === "deploying"} on both deploy buttons
DeployButtonEnabled == deploymentStatus # "deploying"

\* handleDeploy up to its await
HandleDeploy(platform) ==
    /\ deploymentStatus' = "deploying"
    /\ deployCalls' = Append(deployCalls,
                             [platform |-> platform, code |-> codeContent,
                              fileName |-> fileName])
    /\ deployRequests' = deployRequests + 1
    /\ UNCHANGED <<clock, chatVars, editorVars, revertTimers, uncaught, wsVars,
                   routeVars>>

\* a click on an enabled deploy button
ClickDeploy(platform) ==
    /\ DeployButtonEnabled
    /\ deployRequests < MaxDeploys
    /\ HandleDeploy(platform)

DeployMessage(platform, data, now) ==
    NewMessage(now, "assistant",
               "Successfully deployed to " \o platform
                   \o "!\n\nDeployment URL: " \o Interpolate(data, "url")
                   \o "\nGitHub Repository: " \o Interpolate(data, "repoUrl"),
               <<>>)

\* any body that parses taken for a success
DeploySucceeded_AnyBody(answer) == answer.kind = "json"

\* data.success of the transport's answer; a throw goes to the catch
DeploySucceeded(answer) == answer.kind = "json" /\ answer.data.success

\* handleDeploy with the revert timer set on the success path only
DeployResume_RevertOnSuccessOnly(i, answer) ==
    /\ i \in 1..Len(deployCalls)
    /\ deployCalls' = RemoveAt(deployCalls, i)
    /\ IF answer.kind = "json" /\ answer.data.success
       THEN /\ deploymentStatus' = "success"
            /\ messages' = Append(messages,
                   DeployMessage(deployCalls[i].platform, answer.data, clock))
            /\ revertTimers' = revertTimers + 1
       ELSE /\ deploymentStatus' = "error"
            /\ UNCHANGED <<messages, revertTimers>>
    /\ UNCHANGED <<clock, input, isLoading, uploadedFiles, chatCalls, uploadCalls,
                   uploads, editorVars, deployRequests, uncaught, wsVars, routeVars>>

\* handleDeploy after its awaits, for the i-th outstanding call
DeployResume(i, answer) ==
    /\ i \in 1..Len(deployCalls)
    /\ deployCalls' = RemoveAt(deployCalls, i)
    /\ IF DeploySucceeded(answer)
       THEN /\ deploymentStatus' = "success"
            /\ messages' = Append(messages,
                   DeployMessage(deployCalls[i].platform, answer.data, clock))
       ELSE /\ deploymentStatus' = "error"
            /\ UNCHANGED messages
    /\ revertTimers' = revertTimers + 1
    /\ UNCHANGED <<clock, input, isLoading, uploadedFiles, chatCalls, uploadCalls,
                   uploads, editorVars, deployRequests, uncaught, wsVars, routeVars>>

\* the callback of setTimeout(..., 3000)
RevertTimerFires ==
    /\ revertTimers > 0
    /\ revertTimers' = revertTimers - 1
    /\ deploymentStatus' = "idle"
    /\ UNCHANGED <<clock, chatVars, editorVars, deployCalls, deployRequests,
                   uncaught, wsVars, routeVars>>

\* time passes
Tick ==
    /\ clock < ClockStart + MaxTicks
    /\ clock' = clock + 1
    /\ UNCHANGED <<ideVars, uncaught, wsVars, routeVars>>

(***************************************************************************)
(* Workspace helpers over localStorage                                     *)
(***************************************************************************)
\* localStorage.getItem: null for an absent key
NotFound == <<>>
Found(value) == <<value>>
getItem(store, key) ==
    IF key \in DOMAIN store THEN Found(store[key]) ELSE NotFound

\* localStorage.setItem, when the store accepts the write
setItem(store, key, value) ==
    [k \in DOMAIN store \cup {key} |-> IF k = key THEN value ELSE store[k]]

\* the store after the first n of a sequence of <<key, value>> writes; a store
\* that is full or unavailable makes setItem throw, which ends the caller
RECURSIVE Written(_, _, _)
Written(store, writes, n) ==
    IF n = 0 \/ writes = <<>>
    THEN store
    ELSE Written(setItem(store, writes[1][1], writes[1][2]), Tail(writes), n - 1)

\* `workspace-${Date.now()}`
NewWorkspaceId(now) == "workspace-" \o ToString(now)

\* a code key that leaves out the workspace id
CodeKey_Shared(id) == "workspace-code"

CodeKey(id) == id \o "-code"
FileNameKey(id) == id \o "-fileName"
FileKey(id, index) == id \o "-file-" \o ToString(index)
FileCountKey(id) == id \o "-fileCount"

\* sample arguments
NoCode == ""
NoId == ""
ExplicitIds == {"proj"}
SaveArgs == { [code |-> "a()", fileName |-> "app.tsx"],
              [code |-> "b()", fileName |-> "util.ts"] }
Metadatas ==
    { [type |-> "debug"],
      [type |-> "build", code |-> "a()"],
      [type |-> "build", code |-> "b()", fileName |-> "util.ts"] }
FileLists ==
    { <<>>,
      <<[name |-> "a.ts", content |-> "a()"]>>,
      <<[name |-> "a.ts", content |-> "a()"], [name |-> "b.ts", content |-> "b()"]>> }

\* JSON.stringify of a {name, content} object whose strings need no escaping
JSONstringify(file) ==
    "{\"name\":\"" \o file.name \o "\",\"content\":\"" \o file.content \o "\"}"

\* the writes saveCodeToWorkspace makes, in order
SaveWrites(id, code, name) ==
    << <<CodeKey(id), code>>, <<FileNameKey(id), name>> >>

\* the bookkeeping of completed saves: id -> what the last save call stored
Remember(id, code, name) ==
    [k \in DOMAIN saved \cup {id} |->
        IF k = id THEN [code |-> code, fileName |-> name] ELSE saved[k]]
Forget(id) == [k \in DOMAIN saved \ {id} |-> saved[k]]

\* the bookkeeping of every file name saved under an id by completed saves
FilesOf(id) == IF id \in DOMAIN savedFiles THEN savedFiles[id] ELSE << >>
RememberFile(id, code, name) ==
    [k \in DOMAIN savedFiles \cup {id} |->
        IF k = id
        THEN [n \in DOMAIN FilesOf(id) \cup {name} |->
                 IF n = name THEN code ELSE FilesOf(id)[n]]
        ELSE savedFiles[k]]
ForgetFiles(id) == [k \in DOMAIN savedFiles \ {id} |-> savedFiles[k]]

\* a helper that makes `writes` and then returns: the store accepts the first
\* accepted of them; if that is not all, setItem throws out of the helper
StoreWrites(writes, accepted) ==
    /\ accepted \in 0..Len(writes)
    /\ helperCalls < MaxCalls
    /\ helperCalls' = helperCalls + 1
    /\ localStorage' = Written(localStorage, writes, accepted)
    /\ uncaught' = (uncaught \/ accepted < Len(writes))

openIDEWorkspace(metadata, accepted) ==
    LET workspaceId == NewWorkspaceId(clock)
        hasCode == OrElse(metadata, "code", NoCode) # NoCode
        writes == IF hasCode
                  THEN SaveWrites(workspaceId, metadata.code,
                                  OrElse(metadata, "fileName", "app.tsx"))
                  ELSE <<>>
        returns == accepted = Len(writes)
    IN /\ StoreWrites(writes, accepted)
       /\ returnedIds' = IF returns THEN Append(returnedIds, workspaceId)
                                      ELSE returnedIds
       /\ saved' = IF ~hasCode THEN saved
                   ELSE IF returns
                   THEN Remember(workspaceId, writes[1][2], writes[2][2])
                   ELSE Forget(workspaceId)
       /\ savedFiles' = IF ~hasCode THEN savedFiles
                        ELSE IF returns
                        THEN RememberFile(workspaceId, writes[1][2], writes[2][2])
                        ELSE ForgetFiles(workspaceId)
       /\ UNCHANGED <<clock, ideVars, routeVars>>

saveCodeToWorkspace(code, name, workspaceId, accepted) ==
    LET id == IF workspaceId # NoId THEN workspaceId ELSE NewWorkspaceId(clock)
        writes == SaveWrites(id, code, name)
        returns == accepted = Len(writes)
    IN /\ StoreWrites(writes, accepted)
       /\ returnedIds' = IF returns /\ workspaceId = NoId
                         THEN Append(returnedIds, id)
                         ELSE returnedIds
       /\ saved' = IF returns THEN Remember(id, code, name) ELSE Forget(id)
       /\ savedFiles' = IF returns THEN RememberFile(id, code, name)
                                   ELSE ForgetFiles(id)
       /\ UNCHANGED <<clock, ideVars, routeVars>>

loadCodeFromWorkspace(workspaceId) ==
    [code |-> getItem(localStorage, CodeKey(workspaceId)),
     fileName |-> getItem(localStorage, FileNameKey(workspaceId))]

createWorkspaceFromFiles(files, accepted) ==
    LET workspaceId == NewWorkspaceId(clock)
        writes == [i \in 1..Len(files) |->
                      <<FileKey(workspaceId, i - 1), JSONstringify(files[i])>>]
                  \o << <<FileCountKey(workspaceId), ToString(Len(files))>> >>
        returns == accepted = Len(writes)
    IN /\ StoreWrites(writes, accepted)
       /\ returnedIds' = IF returns THEN Append(returnedIds, workspaceId)
                                      ELSE returnedIds
       /\ UNCHANGED <<clock, ideVars, routeVars, saved, savedFiles>>

\* the ids a caller can pass: one it was given, a name of its own, or none
KnownIds == {returnedIds[i] : i \in 1..Len(returnedIds)} \cup ExplicitIds

(***************************************************************************)
(* Specifications                                                          *)
(***************************************************************************)
Init ==
    /\ clock = ClockStart
    /\ messages = <<NewMessage(InitialMessageId, "assistant", WelcomeText, <<>>)>>
    /\ input = ""
    /\ isLoading = FALSE
    /\ uploadedFiles = <<>>
    /\ chatCalls = <<>>
    /\ uploadCalls = <<>>
    /\ uploads = 0
    /\ deploymentStatus = "idle"
    /\ deployCalls = <<>>
    /\ deployRequests = 0
    /\ revertTimers = 0
    /\ codeContent = "// Welcome to your custom IDE"
    /\ fileName = "app.tsx"
    /\ activeTab = "chat"
    /\ uncaught = FALSE
    /\ localStorage = << >>
    /\ returnedIds = <<>>
    /\ saved = << >>
    /\ savedFiles = << >>
    /\ helperCalls = 0
    /\ request = NoRequest
    /\ reply = NoReply

\* a chat turn
TurnNext ==
    \/ \E text \in InputTexts : SetInput(text)
    \/ Len(messages) < MaxMessages /\ HandleSubmit
    \/ \E i \in 1..Len(chatCalls), answer \in ChatAnswers : SubmitResume(i, answer)

\* the chat side of CustomIDE: turns and attachments
ChatNext ==
    \/ Tick
    \/ TurnNext
    \/ \E files \in UploadBatches :
           /\ uploads < MaxUploads
           /\ HandleFileUpload(files)
    \/ \E k \in 1..Len(uploadCalls), readOk \in BOOLEAN : UploadResume(k, readOk)
    \/ \E index \in 1..Len(uploadedFiles) : RemoveFile(index)

ChatSpec == Init /\ [][ChatNext]_vars

\* the deployment side of CustomIDE
DeployNext ==
    \/ Tick
    \/ \E platform \in Platforms : ClickDeploy(platform)
    \/ \E i \in 1..Len(deployCalls) :
           \E answer \in DeployAnswers(deployCalls[i].platform, clock) :
               DeployResume(i, answer)
    \/ RevertTimerFires

DeploySpec == Init /\ [][DeployNext]_vars

\* everything that appends to the conversation history
Next == TurnNext \/ DeployNext

Spec == Init /\ [][Next]_vars

\* the workspace helpers
WorkspaceNext ==
    \/ Tick
    \/ \E metadata \in Metadatas, accepted \in 0..2 :
           openIDEWorkspace(metadata, accepted)
    \/ \E args \in SaveArgs, id \in KnownIds \cup {NoId}, accepted \in 0..2 :
           saveCodeToWorkspace(args.code, args.fileName, id, accepted)
    \/ \E files \in FileLists, accepted \in 0..3 :
           createWorkspaceFromFiles(files, accepted)

WorkspaceSpec == Init /\ [][WorkspaceNext]_vars

\* the process-request route, one request after another
RouteNext ==
    \/ \E body \in RequestBodies : Receive(body)
    \/ ProcessRequest

RouteSpec == Init /\ [][RouteNext]_vars

\* the deployment side, with a transport that answers (or fails) and timers
\* that fire
DeployFairSpec ==
    /\ DeploySpec
    /\ WF_vars(\E i \in 1..Len(deployCalls) :
                   \E answer \in DeployAnswers(deployCalls[i].platform, clock) :
                       DeployResume(i, answer))
    /\ WF_vars(RevertTimerFires)

(***************************************************************************)
(* Properties                                                              *)
(***************************************************************************)
Terminal == {"success", "error"}

\* C1: there are never two deployment attempts outstanding (invoked and not
\* yet resolved) at the same time.
C1_OneDeployOutstanding == Len(deployCalls) <= 1

\* C2: the deployment status changes only along idle -> deploying,
\* deploying -> success, deploying -> error, success -> idle, error -> idle.
StatusMoves ==
    { <<"idle", "deploying">>, <<"deploying", "success">>,
      <<"deploying", "error">>, <<"success", "idle">>, <<"error", "idle">> }
C2_StatusMovesForward ==
    [][deploymentStatus' # deploymentStatus
         => <<deploymentStatus, deploymentStatus'>> \in StatusMoves]_vars

\* C5: a status of deploying leads to success or error, success or error
\* leads to idle, and with no attempt outstanding and no revert timer
\* pending the status is idle.
C5_DeployResolves ==
    /\ (deploymentStatus = "deploying") ~> (deploymentStatus \in Terminal)
    /\ (deploymentStatus \in Terminal) ~> (deploymentStatus = "idle")
    /\ [](deployCalls = <<>> /\ revertTimers = 0 => deploymentStatus = "idle")
C5_Witness ==
    /\ deployRequests = MaxDeploys
    /\ deployCalls = <<>>
    /\ revertTimers = 0
    /\ deploymentStatus = "idle"

\* C6: when the transport throws, answers an unparsable body or answers
\* success = false, handleDeploy ends with status error, appends no
\* deployment message, lets no error escape and sends no further request.
FailedAnswer(answer) == answer.kind # "json" \/ ~answer.data.success
C6_FailureIsAStatus ==
    [][\A i \in 1..Len(deployCalls) :
         \A answer \in DeployAnswers(deployCalls[i].platform, clock) :
             FailedAnswer(answer) /\ DeployResume(i, answer)
                 => /\ deploymentStatus' = "error"
                    /\ messages' = messages
                    /\ deployRequests' = deployRequests
                    /\ Len(deployCalls') = Len(deployCalls) - 1
                    /\ ~uncaught']_vars
C6_Witness ==
    /\ deploymentStatus = "error"
    /\ deployRequests = 1
    /\ deployCalls = <<>>
    /\ Len(messages) = 1
    /\ ~uncaught

\* C7: at most one chat request is outstanding, and a submit while one is
\* outstanding sends nothing and changes no state.
C7_OneChatOutstanding ==
    /\ [](Len(chatCalls) <= 1)
    /\ [][chatCalls # <<>> /\ HandleSubmit => UNCHANGED vars]_vars
C7_Witness ==
    /\ Len(chatCalls) = 1
    /\ Trim(input) # ""
    /\ uploadedFiles # <<>>

\* C8: every accepted submit appends one user message and then, whatever the
\* transport answers, one assistant message with non-empty text; earlier
\* messages stay as they are, and the in-flight flag is set exactly while
\* the turn is outstanding.
TurnsWellFormed ==
    /\ \A k \in 2..Len(messages) :
           /\ messages[k].type = IF k % 2 = 0 THEN "user" ELSE "assistant"
           /\ messages[k].content # ""
    /\ chatCalls # <<>> <=> Len(messages) % 2 = 0
    /\ isLoading <=> chatCalls # <<>>
C8_FailedTurnKeepsHistory ==
    /\ []TurnsWellFormed
    /\ [][/\ Len(messages') \in {Len(messages), Len(messages) + 1}
          /\ SubSeq(messages', 1, Len(messages)) = messages]_vars
C8_Witness ==
    /\ Len(messages) = 3
    /\ messages[2].content = UploadedFilesText
    /\ messages[3].content \in {ApologyText, ErrorText}
    /\ ~isLoading

\* C9: no two messages of the conversation history share an id.
C9_UniqueMessageIds ==
    \A i, j \in 1..Len(messages) : i # j => messages[i].id # messages[j].id

\* C3: no two workspace-creating calls return the same workspace id.
C3_UniqueWorkspaceIds ==
    \A i, j \in 1..Len(returnedIds) : i # j => returnedIds[i] # returnedIds[j]

\* C4: no workspace helper lets an error reach its caller, whatever the
\* store does with the writes.
C4_PersistenceNeverRaises == ~uncaught

\* C10: for every workspace id, loadCode returns exactly the code and file
\* name of the last save call made for that id, whatever was saved to other
\* ids since.
C10_SaveLoadRoundTrip ==
    \A id \in DOMAIN saved :
        loadCodeFromWorkspace(id) =
            [code |-> Found(saved[id].code), fileName |-> Found(saved[id].fileName)]
C10_Witness ==
    \E id, other \in DOMAIN saved :
        /\ id \in ExplicitIds
        /\ other \notin ExplicitIds
        /\ saved[id].code # saved[other].code
        /\ helperCalls = MaxCalls

\* C11: every file name ever saved under a workspace id by a completed save
\* is still retrievable under that id, with the source of its most recent
\* save; saving under another name removes or replaces nothing.
loadCode(workspaceId, name) ==
    LET entry == loadCodeFromWorkspace(workspaceId)
    IN IF entry.fileName = Found(name) THEN entry.code ELSE NotFound
C11_FilesAccumulate ==
    \A id \in DOMAIN savedFiles :
        \A name \in DOMAIN savedFiles[id] :
            loadCode(id, name) = Found(savedFiles[id][name])

\* the attachments as a set, without their order
Attachments(body) == {body.files[i] : i \in 1..Len(body.files)}

\* the category the fixed sub-order gives a set of attachments
CategoryOfAttachments(attachments) ==
    CASE \E f \in attachments : StartsWith(f.type, "image/") -> "image-analysis"
      [] /\ \A f \in attachments : ~StartsWith(f.type, "image/")
         /\ \E f \in attachments : EndsWith(f.name, ".zip") -> "zip-extraction"
      [] /\ \A f \in attachments :
                ~StartsWith(f.type, "image/") /\ ~EndsWith(f.name, ".zip")
         /\ \E f \in attachments :
                Includes(f.name, "figma") \/ Includes(f.type, "figma") ->
             "figma-conversion"
      [] OTHER -> "file-analysis"

\* C12: a request with attachments is answered with the category its set of
\* attachments has under the sub-order image, .zip name, figma, other; every
\* request with the same set of attachments, in any order and with any
\* message, gets the same category.
C12_FilesDecideCategory ==
    reply # NoReply /\ HasFiles(request)
        => /\ reply.status = 200
           /\ reply.body.metadata.type = CategoryOfAttachments(Attachments(request))
           /\ \A other \in RequestBodies :
                  HasFiles(other) /\ Attachments(other) = Attachments(request)
                      => POST(other).body.metadata.type = reply.body.metadata.type
C12_Witness ==
    /\ reply # NoReply
    /\ HasFiles(request)
    /\ request.files = <<ArchiveFile, PngFile>>
    /\ "message" \in DOMAIN request
    /\ request.message = "build an app like Notion and fix it"
    /\ reply.body.metadata.type = "image-analysis"

\* a request without attachments that carries a message
TextOnly(body) == ~HasFiles(body) /\ "message" \in DOMAIN body

\* s matches https?://\S+ as a whole
IsUrl(s) ==
    /\ \E scheme \in {"http://", "https://"} :
           StartsWith(s, scheme) /\ Len(s) > Len(scheme)
    /\ \A k \in 1..Len(s) : SubSeq(s, k, k) \notin WhiteSpace

\* the first substring of text matching https?://\S+ (leftmost, then
\* longest), "" if there is none
FirstUrl(text) ==
    LET starts == {i \in 1..Len(text) :
                      \E j \in i..Len(text) : IsUrl(SubSeq(text, i, j))}
    IN IF starts = {} THEN ""
       ELSE LET i == CHOOSE a \in starts : \A b \in starts : a <= b
                j == CHOOSE a \in i..Len(text) :
                         /\ IsUrl(SubSeq(text, i, a))
                         /\ \A b \in (a + 1)..Len(text) : ~IsUrl(SubSeq(text, i, b))
            IN SubSeq(text, i, j)

\* C13: without attachments, a message whose lower-cased text contains
\* "clone" and "http" or "github" is answered github-clone if the lower-cased
\* text contains "github.com" and website-clone otherwise, with url the
\* first match of https?://\S+, whatever the letter-casing of the message.
C13_CloneDecidedOnLowerCase ==
    reply # NoReply /\ TextOnly(request)
        => LET lower == ToLowerCase(request.message)
           IN /\ Includes(lower, "clone")
              /\ Includes(lower, "http") \/ Includes(lower, "github")
              => /\ reply.status = 200
                 /\ "type" \in DOMAIN reply.body.metadata
                 /\ reply.body.metadata.type =
                        IF Includes(lower, "github.com") THEN "github" ELSE "website"
                 /\ reply.body.metadata.url = FirstUrl(request.message)

\* C14: without attachments, a message containing "github.com" and "clone"
\* is answered github-clone with openIDE set and url the first match of
\* https?://\S+ in the message, "" when the message has no match.
C14_GithubCloneUrl ==
    /\ reply # NoReply
    /\ TextOnly(request)
    /\ Includes(request.message, "github.com")
    /\ Includes(request.message, "clone")
    => /\ reply.status = 200
       /\ reply.body.metadata.type = "github"
       /\ reply.body.metadata.openIDE = TRUE
       /\ reply.body.metadata.url = FirstUrl(request.message)
C14_Witness ==
    /\ reply # NoReply
    /\ TextOnly(request)
    /\ request.message = "clone github.com/acme/widgets"
    /\ reply.body.metadata.type = "github"
    /\ reply.body.metadata.openIDE = TRUE
    /\ reply.body.metadata.url = ""

\* the category a response reports: its metadata's type, none when it has no
\* type
CategoryOf(metadata) ==
    IF "type" \in DOMAIN metadata THEN metadata.type ELSE "none"

\* the text rule a category belongs to
RuleOf(category) ==
    CASE category \in {"github", "website"} -> "clone"
      [] category = "build" -> "app-build"
      [] OTHER -> category

\* the first text rule, in the order clone, app-build, debug, that the
\* lower-cased text matches; none if it matches no rule
FirstRule(text) ==
    LET lower == ToLowerCase(text)
    IN IF /\ Includes(lower, "clone")
          /\ Includes(lower, "http") \/ Includes(lower, "github")
       THEN "clone"
       ELSE IF Includes(lower, "build") /\ Includes(lower, "app like")
       THEN "app-build"
       ELSE IF Includes(lower, "debug") \/ Includes(lower, "fix")
       THEN "debug"
       ELSE "none"

\* C15: without attachments, the response's category belongs to the first of
\* the rules clone, app-build, debug that the message matches, and is none
\* when the message matches no rule.
C15_FirstRuleWins ==
    reply # NoReply /\ TextOnly(request)
        => /\ reply.status = 200
           /\ RuleOf(CategoryOf(reply.body.metadata)) = FirstRule(request.message)

\* the closed set of categories, under the names the route gives them
Categories ==
    {"image-analysis", "zip-extraction", "figma-conversion", "file-analysis",
     "github", "website", "build", "debug", "none"}

\* C16: every response that carries metadata reports one category of the
\* closed set, and its openIDE is true exactly when that category is not
\* none.
C16_OneCategoryOpensWorkspace ==
    reply # NoReply /\ "metadata" \in DOMAIN reply.body
        => LET metadata == reply.body.metadata
               opens == "openIDE" \in DOMAIN metadata /\ metadata.openIDE = TRUE
           IN /\ CategoryOf(metadata) \in Categories
              /\ opens <=> CategoryOf(metadata) # "none"
C16_Witness ==
    /\ reply # NoReply
    /\ TextOnly(request)
    /\ request.message = "hello there"
    /\ reply.status = 200
    /\ CategoryOf(reply.body.metadata) = "none"
    /\ "openIDE" \notin DOMAIN reply.body.metadata

\* C17: a request that parses, has no attachments and has no message field
\* is answered with a 4xx status and a body that holds an error message and
\* nothing else.
C17_AbsentMessageIsClientError ==
    /\ reply # NoReply
    /\ "unparsable" \notin DOMAIN request
    /\ ~HasFiles(request)
    /\ "message" \notin DOMAIN request
    => /\ reply.status \in 400..499
       /\ DOMAIN reply.body = {"error"}

\* the descriptors a handleFileUpload invocation holds or has added, wherever
\* they are: pending, attached to a message, or pushed to a newFiles that
\* has not been added yet
RECURSIVE Flatten(_)
Flatten(lists) ==
    IF lists = <<>> THEN <<>> ELSE Head(lists) \o Flatten(Tail(lists))
Pending(files, calls) ==
    files \o Flatten([k \in 1..Len(calls) |-> calls[k].newFiles])
Attached(history) == Flatten([k \in 1..Len(history) |-> history[k].files])
Count(d, list) == Cardinality({k \in 1..Len(list) : list[k] = d})
Elements(list) == {list[k] : k \in 1..Len(list)}

\* C18: when file.text() rejects for the file a handleFileUpload invocation
\* is waiting on, no error leaves the handler, the file's descriptor with
\* name, type and size only is pushed, and the descriptors pushed before it
\* are kept, on their way to the pending list.
C18_ReadFailureYieldsDescriptor ==
    [][\A k \in 1..Len(uploadCalls) :
         UploadResume(k, FALSE)
             => LET call == uploadCalls[k]
                    kept == Pending(uploadedFiles', uploadCalls')
                IN /\ uncaught' = uncaught
                   /\ Descriptor(call.files[call.i]) \in Elements(kept)
                   /\ \A d \in Elements(call.newFiles) : d \in Elements(kept)]_vars

\* C20: no step but removeFile loses a descriptor, wherever it is (pushed,
\* pending or attached to a message); only a step of handleFileUpload adds
\* one, so none is ever duplicated into a message or into the pending list;
\* the descriptors of a batch that completes are added to the pending list.
C20_NoAttachmentLostOrDuplicated ==
    [][LET before == Pending(uploadedFiles, uploadCalls) \o Attached(messages)
           after == Pending(uploadedFiles', uploadCalls') \o Attached(messages')
           all == Elements(before) \cup Elements(after)
       IN IF \E index \in 1..Len(uploadedFiles) : RemoveFile(index)
          THEN TRUE
          ELSE IF uploads' # uploads \/ uploadCalls' # uploadCalls
          THEN \A d \in all : Count(d, after) >= Count(d, before)
          ELSE \A d \in all : Count(d, after) = Count(d, before)]_vars

\* the text that reports the two locations of a deployment to vercel
Surfaced(locations) ==
    "Successfully deployed to vercel!\n\nDeployment URL: " \o locations.url
        \o "\nGitHub Repository: " \o locations.repoUrl

StorableIds ==
    {NewWorkspaceId(now) : now \in ClockStart..(ClockStart + MaxTicks)}
        \cup ExplicitIds
FileIndexes == 0..CHOOSE n \in {Len(files) : files \in FileLists} :
                     \A files \in FileLists : Len(files) <= n

\* C21: for every workspace id with a stored <id>-fileCount of n, the
\* entries <id>-file-0 .. <id>-file-(n-1) all exist and no entry
\* <id>-file-k with k >= n exists.
C21_FileEntriesMatchCount ==
    \A id \in StorableIds :
        FileCountKey(id) \in DOMAIN localStorage
            => \E n \in FileIndexes :
                   /\ localStorage[FileCountKey(id)] = ToString(n)
                   /\ \A k \in FileIndexes :
                          FileKey(id, k) \in DOMAIN localStorage <=> k < n

====
